---- MODULE Spec2Model ----
(***************************************************************************)
(* PostBot (src/main.py): a Telegram bot that links one channel per        *)
(* operator, gathers a post (text, media, button) through an aiogram FSM   *)
(* dialogue, stores it in SQLite and publishes it on confirmation.         *)
(*                                                                         *)
(* Python strings are sequences of one-character strings; Python's None is *)
(* the sequence <<"None">>, which is no string of characters.  A key that  *)
(* an FSM data dict does not hold is <<"Missing">>.                        *)
(*                                                                         *)
(* A handler is one step, but for get_button, which is two: up to the      *)
(* DELETE of save_post, and from its INSERT on, so that other handlers     *)
(* (aiogram runs each update as a task of its own) read the tables while   *)
(* the transaction is open.  Replies to the operator's own chat are taken  *)
(* to be delivered; a send to the channel is delivered or fails.           *)
(***************************************************************************)
EXTENDS Integers, Sequences, FiniteSets, TLC

VARIABLES users, posts, txn, fsm_state, fsm_data, call, last, comp

vars == <<users, posts, txn, fsm_state, fsm_data, call, last, comp>>

\* ------------------------------------------------------------------ bounds
\* The operator who talks to the bot in this run of the process.
Operators == {1}

\* Number of other users whose rows bot.db may hold from earlier runs of the
\* process (init_db keeps an existing file: CREATE TABLE IF NOT EXISTS).
NumOthers == 1

Others == {1 + i : i \in 1..NumOthers}

\* ------------------------------------------------------------------ values
None == <<"None">>

Missing == <<"Missing">>

\* Python truthiness of a str-or-None value.
Truthy(x) == x # None /\ x # <<>>

\* FSM states: PostForm's four states, and no state at all.
NoState == "None"

PostForm == {"set_channel", "text", "media", "button"}

EmptyData == [text |-> Missing, media |-> Missing,
              button_text |-> Missing, button_url |-> Missing]

\* ------------------------------------------------------------------ strings
WhiteSpace == {" ", "\t"}

\* str.lower(), on the letters the inputs use.
LowerChar(c) ==
    CASE c = "N" -> "n"
      [] c = "E" -> "e"
      [] c = "T" -> "t"
      [] c = "A" -> "a"
      [] c = "B" -> "b"
      [] OTHER -> c

lower(s) == [i \in 1..Len(s) |-> LowerChar(s[i])]

\* str.strip(): drop leading and trailing whitespace.
RECURSIVE lstrip(_)
lstrip(s) == IF s # <<>> /\ Head(s) \in WhiteSpace THEN lstrip(Tail(s)) ELSE s

RECURSIVE rstrip(_)
rstrip(s) ==
    IF s # <<>> /\ s[Len(s)] \in WhiteSpace
    THEN rstrip(SubSeq(s, 1, Len(s) - 1))
    ELSE s

strip(s) == rstrip(lstrip(s))

\* Index of the first "|" of s, 0 when there is none.
RECURSIVE find(_, _)
find(s, i) ==
    IF i > Len(s) THEN 0
    ELSE IF s[i] = "|" THEN i
    ELSE find(s, i + 1)

\* str.split("|", 1): one part when there is no delimiter, else the part
\* before the first delimiter and everything after it.
split(s) ==
    LET i == find(s, 1)
    IN  IF i = 0 THEN <<s>>
        ELSE <<SubSeq(s, 1, i - 1), SubSeq(s, i + 1, Len(s))>>

\* html.escape(value, quote=False), as aiogram's html decoration applies it.
QuoteChar(c) ==
    CASE c = "&" -> <<"&", "a", "m", "p", ";">>
      [] c = "<" -> <<"&", "l", "t", ";">>
      [] c = ">" -> <<"&", "g", "t", ";">>
      [] OTHER -> <<c>>

RECURSIVE quote(_)
quote(s) == IF s = <<>> THEN <<>> ELSE QuoteChar(Head(s)) \o quote(Tail(s))

\* Message.html_text: the text, else the caption, else "", escaped.
html_text(m) ==
    quote(IF Truthy(m.text) THEN m.text
          ELSE IF Truthy(m.caption) THEN m.caption
          ELSE <<>>)

\* The literal word of lines 132 and 141 (Russian for "no"), its three
\* Cyrillic letters written n, e, t here and their capitals N, E, T.
NET == <<"n", "e", "t">>

\* ------------------------------------------------------------------ inputs
\* A Message: its text (None for a media message), caption, photo (the list
\* of sizes' file ids, None when it is no photo) and video file id.
TextMsg(s) == [text |-> s, caption |-> None, photo |-> None, video |-> None]

PhotoMsg == [text |-> None, caption |-> None, photo |-> <<<<"p", "s">>, <<"p">>>>, video |-> None]

VideoMsg == [text |-> None, caption |-> None, photo |-> None, video |-> <<"v">>]

StickerMsg == [text |-> None, caption |-> None, photo |-> None, video |-> None]

\* Messages sent in the channel-link step: " @c ", " " and a photo.
ChannelMsgs == {TextMsg(<<" ", "@", "c", " ">>), TextMsg(<<" ">>), PhotoMsg}

\* Messages sent in the text step: "<b" and a photo without caption.
TextMsgs == {TextMsg(<<"<", "b">>), PhotoMsg}

\* Messages sent in the media step.
MediaMsgs == {PhotoMsg, VideoMsg, TextMsg(<<"N", "e", "T">>), TextMsg(<<"x">>), StickerMsg}

\* Messages sent in the button step: "nEt", " A | b ", "|b", "a|b|c", "ab"
\* and a photo.
ButtonMsgs ==
    {TextMsg(<<"n", "E", "t">>),
     TextMsg(<<" ", "A", " ", "|", " ", "b", " ">>),
     TextMsg(<<"|", "b">>),
     TextMsg(<<"a", "|", "b", "|", "c">>),
     TextMsg(<<"a", "b">>),
     PhotoMsg}

\* ------------------------------------------------------------------ database
\* users(user_id INTEGER PRIMARY KEY, channel_id TEXT): a set of rows.
UserRow(u, c) == [user_id |-> u, channel_id |-> c]

\* posts(user_id, text, media, button_text, button_url): no key, so a list of
\* rows in rowid order.
PostRow(u, t, m, bt, bu) ==
    [user_id |-> u, text |-> t, media |-> m, button_text |-> bt, button_url |-> bu]

\* Mutant of insert_or_replace: INSERT OR IGNORE keeps the row of the same key.
insert_or_ignore(tbl, u, c) ==
    IF \E r \in tbl : r.user_id = u THEN tbl ELSE tbl \cup {UserRow(u, c)}

\* INSERT OR REPLACE INTO users: the row of the same primary key goes first.
insert_or_replace(tbl, u, c) == {r \in tbl : r.user_id # u} \cup {UserRow(u, c)}

\* SELECT channel_id FROM users WHERE user_id=?, fetchone, row[0] or None.
get_channel(u) ==
    LET rows == {r \in users : r.user_id = u}
    IN  IF rows = {} THEN None ELSE (CHOOSE r \in rows : TRUE).channel_id

\* Mutant of delete_posts: the DELETE is left out.
delete_posts_skip(rows, u) == rows

\* DELETE FROM posts WHERE user_id=?
delete_posts(rows, u) == SelectSeq(rows, LAMBDA r : r.user_id # u)

\* INSERT INTO posts VALUES (?, ?, ?, ?, ?)
insert_post(rows, row) == Append(rows, row)

\* SELECT text, media, button_text, button_url FROM posts WHERE user_id=?,
\* fetchone: the first matching row, or None.  Another connection reads the
\* committed table.
get_post(u) ==
    LET rows == SelectSeq(posts, LAMBDA r : r.user_id = u)
    IN  IF rows = <<>> THEN None
        ELSE <<rows[1].text, rows[1].media, rows[1].button_text, rows[1].button_url>>

\* txn is <<>>, or <<t>> while a save_post is inside its transaction (SQLite
\* has one writer at a time): t.owner wrote t.rows, which no other connection
\* sees before the commit.
NoTxn == <<>>

\* call[u] is <<>>, or <<c>> while a get_button handler of u is suspended
\* inside save_post with the arguments c.
NoCall == <<>>

\* ------------------------------------------------------------------ state
\* What the last handler run did: the handler, its operator, its outcome and
\* the messages it sent to a channel.  A get_button run that ends in an
\* exception of the database ends "storage_error".  save_channel_id ends "linked" or
\* "relinked" (the operator had a link); get_button ends "saving" when it
\* enters save_post, which ends "saved" or "replaced" (the DELETE found a row).
Last(h, u, r, out) == [h |-> h, u |-> u, r |-> r, out |-> out]

\* comp[u] is what get_text and get_media took from the operator's messages
\* since cb_new_post last let the operator in (lines 116, 121, 134): the
\* inputs of the composition under way.
NoInputs == [text |-> Missing, media |-> Missing]

\* The rows of the other users: each linked "@o" and saved the draft "old".
OtherUsers == {UserRow(o, <<"@", "o">>) : o \in Others}

OtherPosts ==
    [i \in 1..NumOthers |-> PostRow(1 + i, <<"o", "l", "d">>, None, None, None)]

\* After init_db (lines 24-41): a new bot.db with two empty tables, or the
\* file of an earlier run; the MemoryStorage of line 19 is empty.
Init ==
    /\ \E kept \in BOOLEAN :
          /\ users = IF kept THEN OtherUsers ELSE {}
          /\ posts = IF kept THEN OtherPosts ELSE <<>>
    /\ txn = NoTxn
    /\ fsm_state = [u \in Operators |-> NoState]
    /\ fsm_data = [u \in Operators |-> EmptyData]
    /\ call = [u \in Operators |-> NoCall]
    /\ last = Last("init", 0, "ok", <<>>)
    /\ comp = [u \in Operators |-> NoInputs]

\* state.clear(): no state, no data; the composition is over.
clear(u) ==
    /\ fsm_state' = [fsm_state EXCEPT ![u] = NoState]
    /\ fsm_data' = [fsm_data EXCEPT ![u] = EmptyData]
    /\ comp' = [comp EXCEPT ![u] = NoInputs]

\* start (lines 89-94): shows the menu.
Start(u) ==
    /\ last' = Last("start", u, "ok", <<>>)
    /\ UNCHANGED <<users, posts, txn, fsm_state, fsm_data, call, comp>>

\* cb_set_channel (lines 96-100): a callback, taken in any state.
CbSetChannel(u) ==
    /\ fsm_state' = [fsm_state EXCEPT ![u] = "set_channel"]
    /\ last' = Last("cb_set_channel", u, "ok", <<>>)
    /\ UNCHANGED <<users, posts, txn, fsm_data, call, comp>>

\* save_channel_id (lines 102-107).  message.text is None for a media
\* message: .strip() raises and the handler ends there.  set_channel is one
\* statement and a commit; it waits while another connection writes.
SaveChannelId(u, m) ==
    /\ fsm_state[u] = "set_channel"
    /\ IF m.text = None
       THEN /\ last' = Last("save_channel_id", u, "raise", <<>>)
            /\ UNCHANGED <<users, posts, txn, fsm_state, fsm_data, call, comp>>
       ELSE /\ txn = NoTxn
            /\ users' = insert_or_replace(users, u, strip(m.text))
            /\ clear(u)
            /\ last' = Last("save_channel_id", u,
                            IF get_channel(u) = None THEN "linked" ELSE "relinked", <<>>)
            /\ UNCHANGED <<posts, txn, call>>

\* Mutant of CbNewPost: the check of the channel is left out.
CbNewPost_unguarded(u) ==
    /\ fsm_state' = [fsm_state EXCEPT ![u] = "text"]
    /\ comp' = [comp EXCEPT ![u] = NoInputs]
    /\ last' = Last("cb_new_post", u, "ok", <<>>)
    /\ UNCHANGED <<users, posts, txn, fsm_data, call>>

\* Mutant of CbNewPost: the channel is tested with "is None", so that an
\* empty reference passes.
CbNewPost_isnone(u) ==
    IF get_channel(u) = None
    THEN /\ last' = Last("cb_new_post", u, "rejected", <<>>)
         /\ UNCHANGED <<users, posts, txn, fsm_state, fsm_data, call, comp>>
    ELSE /\ fsm_state' = [fsm_state EXCEPT ![u] = "text"]
         /\ comp' = [comp EXCEPT ![u] = NoInputs]
         /\ last' = Last("cb_new_post", u, "ok", <<>>)
         /\ UNCHANGED <<users, posts, txn, fsm_data, call>>

\* cb_new_post (lines 109-117): a callback, taken in any state.
CbNewPost(u) ==
    IF ~Truthy(get_channel(u))
    THEN /\ last' = Last("cb_new_post", u, "rejected", <<>>)
         /\ UNCHANGED <<users, posts, txn, fsm_state, fsm_data, call, comp>>
    ELSE /\ fsm_state' = [fsm_state EXCEPT ![u] = "text"]
         /\ comp' = [comp EXCEPT ![u] = NoInputs]
         /\ last' = Last("cb_new_post", u, "ok", <<>>)
         /\ UNCHANGED <<users, posts, txn, fsm_data, call>>

\* Mutant of GetText: a text the session already holds is kept (setdefault).
GetText_keep(u, m) ==
    /\ fsm_state[u] = "text"
    /\ fsm_data' = [fsm_data EXCEPT ![u].text =
                       IF @ = Missing THEN html_text(m) ELSE @]
    /\ comp' = [comp EXCEPT ![u].text = html_text(m)]
    /\ fsm_state' = [fsm_state EXCEPT ![u] = "media"]
    /\ last' = Last("get_text", u, "ok", <<>>)
    /\ UNCHANGED <<users, posts, txn, call>>

\* get_text (lines 119-123).
GetText(u, m) ==
    /\ fsm_state[u] = "text"
    /\ fsm_data' = [fsm_data EXCEPT ![u].text = html_text(m)]
    /\ comp' = [comp EXCEPT ![u].text = html_text(m)]
    /\ fsm_state' = [fsm_state EXCEPT ![u] = "media"]
    /\ last' = Last("get_text", u, "ok", <<>>)
    /\ UNCHANGED <<users, posts, txn, call>>

\* The media_id of lines 127-133; the branch of line 132 raises on a message
\* without text.
media_raises(m) == m.photo = None /\ m.video = None /\ m.text = None

media_id(m) ==
    IF m.photo # None THEN m.photo[Len(m.photo)]
    ELSE IF m.video # None THEN m.video
    ELSE None

\* get_media (lines 125-136).
GetMedia(u, m) ==
    /\ fsm_state[u] = "media"
    /\ IF media_raises(m)
       THEN /\ last' = Last("get_media", u, "raise", <<>>)
            /\ UNCHANGED <<users, posts, txn, fsm_state, fsm_data, call, comp>>
       ELSE /\ fsm_data' = [fsm_data EXCEPT ![u].media = media_id(m)]
            /\ comp' = [comp EXCEPT ![u].media = media_id(m)]
            /\ fsm_state' = [fsm_state EXCEPT ![u] = "button"]
            /\ last' = Last("get_media", u, "ok", <<>>)
            /\ UNCHANGED <<users, posts, txn, call>>

\* The button step's parse (lines 140-147).  .lower() raises on a message
\* without text; unpacking a split of one part raises ValueError.
button_raises(m) == m.text = None

button_malformed(s) == lower(s) # NET /\ Len(split(s)) = 1

button_of(s) ==
    IF lower(s) = NET THEN <<None, None>>
    ELSE <<strip(split(s)[1]), strip(split(s)[2])>>

\* Mutant of button_reject: the malformed button ends the dialogue.
button_reject_clear(u) ==
    /\ clear(u)
    /\ last' = Last("get_button", u, "malformed", <<>>)
    /\ UNCHANGED <<users, posts, txn, call>>

\* Lines 145-147: the answer to a malformed button, and return.
button_reject(u) ==
    /\ last' = Last("get_button", u, "malformed", <<>>)
    /\ UNCHANGED <<users, posts, txn, fsm_state, fsm_data, call, comp>>

\* Mutant of save_post_delete: every statement commits at once (autocommit).
save_post_delete_autocommit(u) ==
    /\ txn = NoTxn
    /\ posts' = delete_posts(posts, u)
    /\ txn' = <<[owner |-> u, rows |-> delete_posts(posts, u)]>>

\* save_post, lines 55-56: the connection's first statement opens the
\* transaction (it waits for the writer before it) and deletes the operator's
\* rows in it.
save_post_delete(u) ==
    /\ txn = NoTxn
    /\ txn' = <<[owner |-> u, rows |-> delete_posts(posts, u)]>>
    /\ UNCHANGED posts

\* get_button (lines 138-151), up to save_post's DELETE.  One handler run of
\* an operator at a time is inside save_post.
GetButton(u, m) ==
    /\ fsm_state[u] = "button"
    /\ IF button_raises(m)
       THEN /\ last' = Last("get_button", u, "raise", <<>>)
            /\ UNCHANGED <<users, posts, txn, fsm_state, fsm_data, call, comp>>
       ELSE IF button_malformed(m.text)
       THEN button_reject(u)
       ELSE LET b == button_of(m.text)
                data == [fsm_data[u] EXCEPT !.button_text = b[1], !.button_url = b[2]]
            IN  /\ call[u] = NoCall
                /\ fsm_data' = [fsm_data EXCEPT ![u] = data]
                /\ IF data.text = Missing \/ data.media = Missing
                   THEN \* data["text"] raises KeyError
                        /\ last' = Last("get_button", u, "raise", <<>>)
                        /\ UNCHANGED <<users, posts, txn, fsm_state, call, comp>>
                   ELSE /\ save_post_delete(u)
                        /\ call' = [call EXCEPT ![u] =
                                       <<PostRow(u, data.text, data.media, b[1], b[2])>>]
                        /\ last' = Last("get_button", u, "saving", <<>>)
                        /\ UNCHANGED <<users, fsm_state, comp>>

\* save_post, lines 57-61, and the rest of get_button (lines 153-162, the
\* preview sent to the operator): the INSERT and the commit.
SavePost(u) ==
    /\ call[u] # NoCall
    /\ txn # NoTxn
    /\ txn[1].owner = u
    /\ posts' = insert_post(txn[1].rows, call[u][1])
    /\ txn' = NoTxn
    /\ call' = [call EXCEPT ![u] = NoCall]
    /\ last' = Last("get_button", u,
                    IF Len(txn[1].rows) < Len(posts) THEN "replaced" ELSE "saved", <<>>)
    /\ UNCHANGED <<users, fsm_state, fsm_data, comp>>

\* The one send of lines 170-177: send_photo when the draft has media, else
\* send_message, with the button when both its fields are truthy.
publish(post, channel) ==
    LET kb == IF Truthy(post[3]) /\ Truthy(post[4]) THEN <<post[3], post[4]>> ELSE None
    IN  IF Truthy(post[2])
        THEN [method |-> "send_photo", chat |-> channel, text |-> post[1],
              media |-> post[2], reply_markup |-> kb]
        ELSE [method |-> "send_message", chat |-> channel, text |-> post[1],
              media |-> None, reply_markup |-> kb]

\* Mutant of confirm_tables: the draft is deleted once confirmed.
confirm_tables_delete(u) ==
    /\ posts' = delete_posts(posts, u)
    /\ UNCHANGED <<users, txn>>

\* What cb_confirm_yes does to the tables (lines 166-180): nothing.
confirm_tables(u) == UNCHANGED <<users, posts, txn>>

\* Mutant of CbConfirmYes: state.clear() sits inside the try, after the send.
CbConfirmYes_stuck(u, delivered) ==
    LET post == get_post(u)
        channel == get_channel(u)
    IN  /\ IF post # None /\ Truthy(channel)
           THEN /\ last' = Last("cb_confirm_yes", u,
                                IF delivered THEN "published" ELSE "failed",
                                <<publish(post, channel)>>)
                /\ IF delivered THEN clear(u) ELSE UNCHANGED <<fsm_state, fsm_data, comp>>
           ELSE /\ last' = Last("cb_confirm_yes", u, "skipped", <<>>)
                /\ clear(u)
        /\ confirm_tables(u)
        /\ UNCHANGED call

\* cb_confirm_yes (lines 164-182): a callback, taken in any state.  delivered
\* is the transport's answer to the send.
CbConfirmYes(u, delivered) ==
    LET post == get_post(u)
        channel == get_channel(u)
    IN  /\ IF post # None /\ Truthy(channel)
           THEN last' = Last("cb_confirm_yes", u,
                             IF delivered THEN "published" ELSE "failed",
                             <<publish(post, channel)>>)
           ELSE last' = Last("cb_confirm_yes", u, "skipped", <<>>)
        /\ clear(u)
        /\ confirm_tables(u)
        /\ UNCHANGED call

\* Mutant of CbConfirmNo: the cancelled draft is deleted from the posts table.
CbConfirmNo_delete(u) ==
    /\ clear(u)
    /\ posts' = delete_posts(posts, u)
    /\ last' = Last("cb_confirm_no", u, "ok", <<>>)
    /\ UNCHANGED <<users, txn, call>>

\* cb_confirm_no (lines 184-188): a callback, taken in any state.
CbConfirmNo(u) ==
    /\ clear(u)
    /\ last' = Last("cb_confirm_no", u, "ok", <<>>)
    /\ UNCHANGED <<users, posts, txn, call>>

Next ==
    \/ \E u \in Operators : Start(u)
    \/ \E u \in Operators : CbSetChannel(u)
    \/ \E u \in Operators, m \in ChannelMsgs : SaveChannelId(u, m)
    \/ \E u \in Operators : CbNewPost(u)
    \/ \E u \in Operators, m \in TextMsgs : GetText(u, m)
    \/ \E u \in Operators, m \in MediaMsgs : GetMedia(u, m)
    \/ \E u \in Operators, m \in ButtonMsgs : GetButton(u, m)
    \/ \E u \in Operators : SavePost(u)
    \/ \E u \in Operators, delivered \in BOOLEAN : CbConfirmYes(u, delivered)
    \/ \E u \in Operators : CbConfirmNo(u)

Spec == Init /\ [][Next]_vars

\* ------------------------------------------------------- storage failures
\* No handler catches what aiosqlite raises (a locked or unreachable
\* bot.db): the handler ends at the failing call, with what it did before.
\* A handler that raises at its first statement has done nothing, and last
\* keeps the run before it.

\* save_channel_id, set_channel of line 105 raises.
SaveChannelIdFails(u, m) ==
    /\ fsm_state[u] = "set_channel"
    /\ m.text # None
    /\ UNCHANGED vars

\* cb_new_post, get_channel of line 111 raises.
CbNewPostFails(u) ==
    /\ u \in Operators
    /\ UNCHANGED vars

\* get_button, save_post of line 151 raises before its DELETE has run: the
\* update_data of line 148 is done.
GetButtonFails(u, m) ==
    /\ fsm_state[u] = "button"
    /\ ~button_raises(m)
    /\ ~button_malformed(m.text)
    /\ fsm_data[u].text # Missing
    /\ fsm_data[u].media # Missing
    /\ LET b == button_of(m.text)
       IN  fsm_data' = [fsm_data EXCEPT ![u].button_text = b[1],
                                        ![u].button_url = b[2]]
    /\ last' = Last("get_button", u, "storage_error", <<>>)
    /\ UNCHANGED <<users, posts, txn, fsm_state, call, comp>>

\* Mutant of rollback: the DELETE stays when the INSERT fails.
rollback_partial(u) ==
    /\ posts' = txn[1].rows
    /\ txn' = NoTxn

\* Leaving the async with of line 55 on an exception closes the connection:
\* SQLite drops the transaction that was not committed.
rollback(u) ==
    /\ txn' = NoTxn
    /\ UNCHANGED posts

\* save_post raises at its INSERT or its commit (lines 57-61).
SavePostFails(u) ==
    /\ call[u] # NoCall
    /\ txn # NoTxn
    /\ txn[1].owner = u
    /\ rollback(u)
    /\ call' = [call EXCEPT ![u] = NoCall]
    /\ last' = Last("get_button", u, "storage_error", <<>>)
    /\ UNCHANGED <<users, fsm_state, fsm_data, comp>>

\* cb_confirm_yes, get_post or get_channel of lines 166-167 raises.
CbConfirmYesFails(u) ==
    /\ u \in Operators
    /\ UNCHANGED vars

\* The handlers, and the handlers failing on the database.
NextStorage ==
    \/ Next
    \/ \E u \in Operators, m \in ChannelMsgs : SaveChannelIdFails(u, m)
    \/ \E u \in Operators : CbNewPostFails(u)
    \/ \E u \in Operators, m \in ButtonMsgs : GetButtonFails(u, m)
    \/ \E u \in Operators : SavePostFails(u)
    \/ \E u \in Operators : CbConfirmYesFails(u)

SpecStorage == Init /\ [][NextStorage]_vars

\* ------------------------------------------------------------------ claims
AllUsers == Operators \cup Others

RowsOf(tbl, u) == SelectSeq(tbl, LAMBDA r : r.user_id = u)

LinksOf(u) == {r \in users : r.user_id = u}

\* The result get_post gives for a row of the posts table.
AsPost(row) == <<row.text, row.media, row.button_text, row.button_url>>

\* C1: the posts table never holds two rows of one user, and when a
\* save_post call of an operator commits, get_post returns exactly that
\* call's arguments, whatever earlier calls saved.
C1_OneDraftPerOperator ==
    /\ [](\A u \in AllUsers : Len(RowsOf(posts, u)) <= 1)
    /\ [][\A u \in Operators :
            SavePost(u) => get_post(u)' = AsPost(call[u][1])]_vars

\* A save_post has just replaced an earlier draft of operator 1.
C1_Witness ==
    /\ last.h = "get_button"
    /\ last.r = "replaced"
    /\ last.u = 1
    /\ get_post(1) # None

\* C2: the users table never holds two links of one user; a set_channel call
\* makes get_channel return its reference; only a set_channel call of the
\* user changes what get_channel returns, and no step removes a link.
C2_OneLinkPerOperator ==
    /\ [](\A u \in AllUsers : Cardinality(LinksOf(u)) <= 1)
    /\ [][/\ \A u \in Operators, m \in ChannelMsgs :
                (SaveChannelId(u, m) /\ m.text # None)
                    => get_channel(u)' = strip(m.text)
          /\ \A u \in AllUsers :
                get_channel(u) # None => get_channel(u)' # None
          /\ \A u \in AllUsers :
                get_channel(u)' # get_channel(u)
                    => last'.h = "save_channel_id" /\ last'.u = u]_vars

\* Operator 1 has just linked a channel over an earlier link.
C2_Witness ==
    /\ last.h = "save_channel_id"
    /\ last.r = "relinked"
    /\ last.u = 1
    /\ get_channel(1) # None

\* C3 (as amended): a 'new post' event of an operator who has no linked
\* channel leaves the dialogue state as it was (Idle stays Idle, the
\* channel-link step stays the channel-link step), never makes it the text
\* step, and changes neither the session's data nor the Draft Store.
C3_RejectedNewPostKeepsState ==
    [][\A u \in Operators :
         (CbNewPost(u) /\ get_channel(u) = None)
             => /\ fsm_state'[u] = fsm_state[u]
                /\ fsm_state'[u] # "text"
                /\ fsm_data' = fsm_data
                /\ posts' = posts
                /\ txn' = txn
                /\ call' = call]_vars

\* Operator 1 pressed 'new post' in the channel-link step, without a link.
C3_Witness ==
    /\ last.h = "cb_new_post"
    /\ last.r = "rejected"
    /\ last.u = 1
    /\ get_channel(1) = None
    /\ fsm_state[1] = "set_channel"

\* C3 as the claim has it: after the rejected 'new post' the state is Idle.
C3_Original ==
    [][\A u \in Operators :
         (CbNewPost(u) /\ get_channel(u) = None)
             => /\ fsm_state'[u] = NoState
                /\ posts' = posts]_vars

\* The claims' words for the button step's inputs.
HasNoDelimiter(s) == \A i \in 1..Len(s) : s[i] # "|"

IsNoWord(s) ==
    /\ Len(s) = 3
    /\ s[1] \in {"n", "N"}
    /\ s[2] \in {"e", "E"}
    /\ s[3] \in {"t", "T"}

\* label|url with one delimiter, a non-empty label and a non-empty url.
IsLabelUrl(s) ==
    \E i \in 2..(Len(s) - 1) :
        /\ s[i] = "|"
        /\ \A j \in 1..Len(s) : j # i => s[j] # "|"

LabelOf(s) == SubSeq(s, 1, (CHOOSE i \in 1..Len(s) : s[i] = "|") - 1)

UrlOf(s) == SubSeq(s, (CHOOSE i \in 1..Len(s) : s[i] = "|") + 1, Len(s))

\* The spec's state after the button step; PostForm (lines 69-73) has no
\* such member.
AwaitingConfirmation == "confirmation"

\* C4 as the claim has it: a button step with a label|url input saves the
\* session's text and media with the trimmed label and url, and the dialogue
\* state becomes AwaitingConfirmation.
C4_Original ==
    [][\A u \in Operators, m \in ButtonMsgs :
         (GetButton(u, m) /\ m.text # None /\ IsLabelUrl(m.text))
             => /\ call'[u] = <<PostRow(u, fsm_data[u].text, fsm_data[u].media,
                                        strip(LabelOf(m.text)), strip(UrlOf(m.text)))>>
                /\ fsm_state'[u] = AwaitingConfirmation]_vars

\* C5: a button step whose text has no delimiter and is not the 'no' word
\* changes nothing (state, session data, Draft Store); a button step with the
\* 'no' word, in any case of letters, saves the session's text and media
\* with both button fields None, and that row is what the commit stores.
C5_MalformedButtonKeepsSession ==
    [][/\ \A u \in Operators, m \in ButtonMsgs :
            (GetButton(u, m) /\ m.text # None)
                => /\ (HasNoDelimiter(m.text) /\ ~IsNoWord(m.text))
                          => UNCHANGED <<fsm_state, fsm_data, users, posts, txn, call, comp>>
                   /\ IsNoWord(m.text)
                          => /\ call'[u] = <<PostRow(u, fsm_data[u].text,
                                                     fsm_data[u].media, None, None)>>
                             /\ fsm_data'[u].text = fsm_data[u].text
                             /\ fsm_data'[u].media = fsm_data[u].media
       /\ \A u \in Operators :
            SavePost(u) => RowsOf(posts', u) = call[u]]_vars

\* Operator 1 has just been asked again for a button, the text and media of
\* the session still there.
C5_Witness ==
    /\ last.h = "get_button"
    /\ last.r = "malformed"
    /\ last.u = 1
    /\ fsm_state[1] = "button"
    /\ fsm_data[1].text # Missing
    /\ fsm_data[1].media # Missing

\* C6 as the claim has it: a confirm makes at most one send, and with a
\* draft and a link it makes the one send to the linked channel, with the
\* draft's text, media and button fields.
C6_Original ==
    last.h = "cb_confirm_yes"
        => LET post == get_post(last.u)
               channel == get_channel(last.u)
           IN  /\ Len(last.out) <= 1
               /\ (post # None /\ channel # None)
                     => /\ Len(last.out) = 1
                        /\ last.out[1].chat = channel
                        /\ last.out[1].text = post[1]
                        /\ last.out[1].media = post[2]
                        /\ last.out[1].reply_markup =
                              (IF post[3] = None /\ post[4] = None
                               THEN None ELSE <<post[3], post[4]>>)

C8_ConfirmKeepsDraft ==
    [][/\ \A u \in Operators, delivered \in BOOLEAN :
            CbConfirmYes(u, delivered)
                => /\ posts' = posts
                   /\ \A v \in AllUsers : get_post(v)' = get_post(v)
       /\ posts' # posts => \E u \in Operators : SavePost(u)]_vars

\* Operator 1's draft has just been published and is still stored.
C8_Witness ==
    /\ last.h = "cb_confirm_yes"
    /\ last.r = "published"
    /\ last.u = 1
    /\ get_post(1) # None

\* C9: once an operator has a draft, every step leaves get_post's answer
\* for that operator one complete row: the row it was, or, at the commit of
\* a save_post, that call's row; never None, never two rows.
C9_ReplaceDraftAtomic ==
    [][\A u \in Operators :
         get_post(u) # None
             => /\ Len(RowsOf(posts', u)) = 1
                /\ \/ get_post(u)' = get_post(u)
                   \/ SavePost(u) /\ get_post(u)' = AsPost(call[u][1])]_vars

\* A confirm of operator 1 has read and sent the draft while a save_post of
\* the same operator was inside its transaction.
C9_Witness ==
    /\ txn # NoTxn
    /\ call[1] # NoCall
    /\ last.h = "cb_confirm_yes"
    /\ last.r \in {"published", "failed"}
    /\ last.u = 1

\* C10 as the claim has it: after an accepted 'new post' the state is the
\* text step and the session holds no field of the abandoned composition.
C10_Original ==
    (last.h = "cb_new_post" /\ Truthy(get_channel(last.u)))
        => /\ fsm_state[last.u] = "text"
           /\ fsm_data[last.u] = EmptyData

\* C11 as the claim has it: a media-step message that is no photo, no video
\* and not the 'no' word leaves the state the media step and stores no media.
C11_Original ==
    [][\A u \in Operators, m \in MediaMsgs :
         (/\ GetMedia(u, m)
          /\ m.photo = None
          /\ m.video = None
          /\ ~(m.text # None /\ IsNoWord(m.text)))
             => /\ fsm_state'[u] = "media"
                /\ fsm_data'[u] = fsm_data[u]]_vars

\* C12 as the claim has it: every stored draft has both button fields None,
\* or both of them non-empty strings.
C12_Original ==
    \A i \in 1..Len(posts) :
        \/ posts[i].button_text = None /\ posts[i].button_url = None
        \/ /\ Truthy(posts[i].button_text)
           /\ Truthy(posts[i].button_url)

\* C13: a handler run that ends in an exception of the database leaves the
\* dialogue state, the users table and the posts table as they were; of the
\* session's data only the button fields may have changed.
C13_StorageFailureKeepsState ==
    [][(\/ last'.r = "storage_error"
        \/ \E u \in Operators :
              \/ CbNewPostFails(u)
              \/ CbConfirmYesFails(u)
              \/ \E m \in ChannelMsgs : SaveChannelIdFails(u, m))
          => /\ fsm_state' = fsm_state
             /\ users' = users
             /\ posts' = posts
             /\ \A u \in Operators :
                   /\ fsm_data'[u].text = fsm_data[u].text
                   /\ fsm_data'[u].media = fsm_data[u].media]_vars

\* A save_post of operator 1 has just failed over a stored draft, which is
\* still there, and the operator is still in the button step.
C13_Witness ==
    /\ last.h = "get_button"
    /\ last.r = "storage_error"
    /\ last.u = 1
    /\ fsm_state[1] = "button"
    /\ txn = NoTxn
    /\ call[1] = NoCall
    /\ get_post(1) # None

\* The preview of operator u's draft has just been shown: the last handler
\* run is u's button step, which saved the draft.
Previewed(u) ==
    /\ last.h = "get_button"
    /\ last.u = u
    /\ last.r \in {"saved", "replaced"}

\* C14 as the claim has it: a confirm sends to the channel only when the
\* operator is awaiting confirmation (for the code, which has no such state:
\* still in the button step); a confirm in any other state sends nothing.
C14_Original ==
    [][\A u \in Operators, delivered \in BOOLEAN :
         (CbConfirmYes(u, delivered) /\ last'.out # <<>>)
             => fsm_state[u] \in {AwaitingConfirmation, "button"}]_vars

\* C15: a cancel sends nothing to a channel, leaves the users and posts
\* tables (and an open transaction) as they are, and leaves the operator
\* without state and without session data.
C15_CancelFrame ==
    [][\A u \in Operators :
         CbConfirmNo(u)
             => /\ last'.out = <<>>
                /\ users' = users
                /\ posts' = posts
                /\ txn' = txn
                /\ fsm_state'[u] = NoState
                /\ fsm_data'[u] = EmptyData]_vars

\* Operator 1 has just cancelled; the link and the saved draft are there.
C15_Witness ==
    /\ last.h = "cb_confirm_no"
    /\ last.u = 1
    /\ fsm_state[1] = NoState
    /\ fsm_data[1] = EmptyData
    /\ get_post(1) # None
    /\ get_channel(1) # None

\* C16 as the claim has it: every stored draft has a non-empty text.
C16_Original ==
    \A i \in 1..Len(posts) : posts[i].text # <<>>

\* C17 as the claim has it: every stored channel reference is a non-empty
\* string without leading or trailing white space.
C17_Original ==
    \A r \in users :
        /\ r.channel_id # <<>>
        /\ strip(r.channel_id) = r.channel_id

\* C18 as the claim has it: once the preview is shown, a further message of
\* the operator does not run the button step again and leaves the stored
\* draft as it is.
C18_Original ==
    [][\A u \in Operators, m \in ButtonMsgs :
         (Previewed(u) /\ GetButton(u, m))
             => /\ call'[u] = NoCall
                /\ txn' = txn
                /\ posts' = posts]_vars

\* C19: an operator in the text, media or button step has a channel
\* reference in the users table, and it is not the empty string.
C19_CompositionHasChannel ==
    \A u \in Operators :
        fsm_state[u] \in {"text", "media", "button"}
            => /\ get_channel(u) # None
               /\ get_channel(u) # <<>>

\* Operator 1 pressed 'new post' again, with the text of an earlier
\* composition still in the session, and is let in.
C19_Witness ==
    /\ last.h = "cb_new_post"
    /\ last.r = "ok"
    /\ last.u = 1
    /\ fsm_state[1] = "text"
    /\ fsm_data[1].text # Missing
    /\ Truthy(get_channel(1))

\* C20: the row a button step hands to save_post has the text that get_text
\* and the media that get_media took since the last accepted 'new post', and
\* the button fields of the button step's own message.
C20_DraftOfCurrentComposition ==
    [][\A u \in Operators, m \in ButtonMsgs :
         (GetButton(u, m) /\ call[u] = NoCall /\ call'[u] # NoCall)
             => /\ comp[u].text # Missing
                /\ comp[u].media # Missing
                /\ call'[u][1].text = comp[u].text
                /\ call'[u][1].media = comp[u].media
                /\ call'[u][1].button_text = button_of(m.text)[1]
                /\ call'[u][1].button_url = button_of(m.text)[2]]_vars

\* A button step of operator 1 is saving the draft of the composition under
\* way over the stored draft of an earlier composition, which had another
\* text.
C20_Witness ==
    /\ last.h = "get_button"
    /\ last.r = "saving"
    /\ last.u = 1
    /\ call[1] # NoCall
    /\ call[1][1].text = comp[1].text
    /\ get_post(1) # None
    /\ get_post(1)[1] # call[1][1].text

====
